---- MODULE Spec2Model ----
(***************************************************************************)
(* Model of the salt state module _states/profile.py: the two state       *)
(* functions installed(name, force, **kwargs) and absent(name), executed   *)
(* line by line against the execution-module capabilities they call       *)
(* through __salt__ (profile.exists, profile.generate, profile.validate,   *)
(* temp.file, profile.install, profile.remove) and the __opts__['test']    *)
(* flag.  The set of installed profiles of the host is part of the state,  *)
(* and may also be changed from outside while a call is running.           *)
(***************************************************************************)
EXTENDS Integers, Sequences, FiniteSets, TLC

\* ---------------------------------------------------------------- bounds
\* temp.file hands out a fresh file on every call and nothing deletes it:
\* the number of files left on disk is capped here.
MaxTempFiles == 2

\* ---------------------------------------------------------------- values
Ids == {"com.example.a", "com.example.b"}
Desired == {"d1", "d2"}

PyTrue == "True"
PyFalse == "False"
PyNone == "None"
ForceValues == {PyNone, PyFalse, PyTrue}

\* the absent marker for a payload (no profile installed / nothing written)
NoPayload == <<>>

\* str.format(): the text with the argument spliced in
Format(before, arg, after) == before \o arg \o after

\* ------------------------------------------------- capabilities (__salt__)
\* profile.generate(name, None, **kwargs): the profile content for kwargs
Generate(n, kw) == <<n, kw>>

Payloads(id) == {Generate(id, d) : d \in Desired}

VARIABLES profiles, tempfiles, filedata,
          pc, fn, name, force, kwargs, test,
          exists, content, valid, mcpath, f, success, ret,
          calls, prev, other, mutated

vars == <<profiles, tempfiles, filedata, pc, fn, name, force, kwargs, test,
          exists, content, valid, mcpath, f, success, ret, calls, prev, other, mutated>>

history == <<prev, other, mutated>>
env == <<profiles, tempfiles, filedata>>
args == <<fn, name, force, kwargs, test>>
locals == <<exists, content, valid, mcpath, f, success>>

\* profile.exists(name)
Exists(n) == profiles[n] # NoPayload

\* profile.validate(name, content)
Validate(n, c) == [installed |-> profiles[n] = c,
                   old_payload |-> profiles[n],
                   new_payload |-> c]

NoValid == [installed |-> FALSE, old_payload |-> NoPayload, new_payload |-> NoPayload]

\* ret = {'name': name, 'result': True, 'changes': {}, 'comment': ''}
NoChanges == <<>>
InitialRet(n) == [name |-> n, result |-> PyTrue, changes |-> NoChanges, comment |-> <<>>]

BoolStr(b) == IF b THEN PyTrue ELSE PyFalse

\* the names of the calls made so far, without their answers
Names(c) == [i \in 1..Len(c) |-> c[i][1]]

Finished == pc \in {"returned", "raised"}

\* History: the previous call, when it was a call of the same function with the
\* same arguments as the running one and nothing has changed the host from
\* outside since it began.
NoPrev == [result |-> "none", success |-> PyNone]
PrevSummary == [result |-> IF pc = "raised" THEN "raised" ELSE ret.result,
                success |-> IF pc = "raised" THEN PyNone ELSE success]

\* History: the previous call of installed, when it had the same arguments as
\* the running one but for force, for as long as every capability has given the
\* running call the answer it gave that one.
NoOther == [outcome |-> "none", force |-> PyNone, calls |-> <<>>, ret |-> InitialRet("")]
OtherSnapshot == [outcome |-> pc, force |-> force, calls |-> calls, ret |-> ret]
Agrees(o, e) == \A j \in 1..Len(o.calls) : o.calls[j][1] = e[1] => o.calls[j] = e

\* a call with its answer is appended to the log
Log(e) ==
    /\ calls' = Append(calls, e)
    /\ other' = IF Agrees(other, e) THEN other ELSE NoOther
    /\ UNCHANGED <<prev, mutated>>

Init ==
    /\ profiles \in [Ids -> {NoPayload}]
    /\ tempfiles = 0
    /\ filedata = NoPayload
    /\ pc = "idle"
    /\ fn = "none"
    /\ name = ""
    /\ force = PyNone
    /\ kwargs = ""
    /\ test = FALSE
    /\ exists = FALSE
    /\ content = NoPayload
    /\ valid = NoValid
    /\ mcpath = 0
    /\ f = "unopened"
    /\ success = PyNone
    /\ ret = InitialRet("")
    /\ calls = <<>>
    /\ prev = NoPrev
    /\ other = NoOther
    /\ mutated = FALSE

\* a new call of a state function: fresh locals, ret as in lines 76-79 / 125-128
Enter(newfn, n, fo, kw, t) ==
    /\ pc = "idle" \/ Finished
    /\ prev' = IF Finished /\ ~mutated /\ fn = newfn /\ name = n
                    /\ (newfn = "installed" => force = fo /\ kwargs = kw /\ test = t)
                  THEN PrevSummary ELSE NoPrev
    /\ other' = IF Finished /\ fn = newfn /\ name = n /\ kwargs = kw /\ test = t /\ force # fo
                   THEN OtherSnapshot ELSE NoOther
    /\ mutated' = FALSE
    /\ fn' = newfn /\ name' = n /\ force' = fo /\ kwargs' = kw /\ test' = t
    /\ exists' = FALSE /\ content' = NoPayload /\ valid' = NoValid
    /\ mcpath' = 0 /\ f' = "unopened" /\ success' = PyNone
    /\ ret' = InitialRet(n)
    /\ calls' = <<>>
    /\ filedata' = NoPayload
    /\ UNCHANGED <<profiles, tempfiles>>

CallInstalled ==
    \E n \in Ids, fo \in ForceValues, kw \in Desired, t \in BOOLEAN :
        /\ tempfiles < MaxTempFiles
        /\ Enter("installed", n, fo, kw, t)
        /\ pc' = "L81"

CallAbsent ==
    \E n \in Ids, t \in BOOLEAN :
        /\ Enter("absent", n, PyNone, "", t)
        /\ pc' = "L130"

\* ------------------------------------------------------------- installed
\* line 81: exists = __salt__['profile.exists'](name)
InstalledExists ==
    /\ pc = "L81"
    /\ exists' = Exists(name)
    /\ Log(<<"profile.exists", BoolStr(Exists(name))>>)
    /\ pc' = "L83"
    /\ UNCHANGED <<env, args, content, valid, mcpath, f, success, ret>>

\* mutant of lines 83-87: generate only when the profile does not exist yet
InstalledGenerateUnlessExists ==
    /\ pc = "L83"
    /\ \/ /\ ~exists
          /\ content' = Generate(name, kwargs)
          /\ Log(<<"profile.generate">> \o Generate(name, kwargs))
          /\ pc' = "L89"
       \/ /\ ~exists
          /\ content' = content
          /\ Log(<<"profile.generate", "raise">>)
          /\ pc' = "raised"
       \/ /\ exists
          /\ content' = profiles[name]
          /\ UNCHANGED <<calls, history>>
          /\ pc' = "L89"
    /\ UNCHANGED <<env, args, exists, valid, mcpath, f, success, ret>>

\* lines 83-87: content = __salt__['profile.generate'](name, None, **kwargs)
InstalledGenerate ==
    /\ pc = "L83"
    /\ \/ /\ content' = Generate(name, kwargs)
          /\ Log(<<"profile.generate">> \o Generate(name, kwargs))
          /\ pc' = "L89"
       \/ /\ content' = content
          /\ Log(<<"profile.generate", "raise">>)
          /\ pc' = "raised"
    /\ UNCHANGED <<env, args, exists, valid, mcpath, f, success, ret>>

\* line 89: valid = __salt__['profile.validate'](name, content)
InstalledValidate ==
    /\ pc = "L89"
    /\ \/ /\ valid' = Validate(name, content)
          /\ Log(<<"profile.validate", BoolStr(valid'.installed)>>
                   \o valid'.old_payload \o valid'.new_payload)
          /\ pc' = "L91"
       \/ /\ valid' = valid
          /\ Log(<<"profile.validate", "raise">>)
          /\ pc' = "raised"
    /\ UNCHANGED <<env, args, exists, content, mcpath, f, success, ret>>

\* mutants of line 91: the test inverted; honoured in test mode only; skipped
\* when force is set
AlreadyInstalledInverted == exists /\ ~valid.installed
AlreadyInstalledTestOnly == exists /\ valid.installed /\ test
AlreadyInstalledUnlessForced == exists /\ valid.installed /\ force # PyTrue

\* line 91: if exists and valid['installed']
AlreadyInstalled == exists /\ valid.installed

\* line 92
AlreadyInstalledComment ==
    Format(<<"Profile identifier \"">>, <<name>>, <<"\", already installed.">>)

\* lines 91-93
InstalledShortCircuit ==
    /\ pc = "L91"
    /\ IF AlreadyInstalled
         THEN /\ ret' = [ret EXCEPT !.comment = AlreadyInstalledComment]
              /\ pc' = "returned"
         ELSE /\ ret' = ret
              /\ pc' = "L95"
    /\ UNCHANGED <<env, args, locals, calls, history>>

\* line 95: mcpath = __salt__['temp.file']('.mobileconfig', 'salt')
InstalledTempFile ==
    /\ pc = "L95"
    /\ tempfiles' = tempfiles + 1
    /\ mcpath' = tempfiles + 1
    /\ filedata' = NoPayload
    /\ Log(<<"temp.file">>)
    /\ pc' = "L96"
    /\ UNCHANGED <<profiles, args, exists, content, valid, f, success, ret>>

\* line 96: f = open(mcpath, "wb")
InstalledOpen ==
    /\ pc = "L96"
    /\ f' = "open"
    /\ filedata' = NoPayload
    /\ Log(<<"open">>)
    /\ pc' = "L97"
    /\ UNCHANGED <<profiles, tempfiles, args, exists, content, valid, mcpath, success, ret>>

\* line 97: f.write(content), which may fail
InstalledWrite ==
    /\ pc = "L97"
    /\ \/ /\ filedata' = content
          /\ Log(<<"write", "ok">>)
          /\ pc' = "L98"
       \/ /\ filedata' = filedata
          /\ Log(<<"write", "raise">>)
          /\ pc' = "raised"
    /\ UNCHANGED <<profiles, tempfiles, args, locals, ret>>

\* line 98: f.close()
InstalledClose ==
    /\ pc = "L98"
    /\ f' = "closed"
    /\ Log(<<"close">>)
    /\ pc' = "L102"
    /\ UNCHANGED <<env, args, exists, content, valid, mcpath, success, ret>>

\* mutant of lines 102, 136: the test flag is not consulted
DryRunIgnored == FALSE

\* lines 102, 136: if __opts__['test']
DryRun == test

\* line 104
InstalledTestComment ==
    Format(<<"New profile would have been generated, property list follows: ">>, content, <<>>)

\* line 105
InstalledTestChanges == name :> "need to make profile"

\* lines 102-106
InstalledTest ==
    /\ pc = "L102"
    /\ IF DryRun
         THEN /\ ret' = [ret EXCEPT !.result = PyNone,
                                    !.comment = InstalledTestComment,
                                    !.changes = InstalledTestChanges]
              /\ pc' = "returned"
         ELSE /\ ret' = ret
              /\ pc' = "L108"
    /\ UNCHANGED <<env, args, locals, calls, history>>

\* profile.install(path): installs the profile stored at path
Install(data) == [profiles EXCEPT ![data[1]] = data]

\* lines 108-109: success = __salt__['profile.install'](mcpath); ret['result'] = success
InstalledInstall ==
    /\ pc = "L108"
    /\ \/ /\ filedata # NoPayload
          /\ profiles' = Install(filedata)
          /\ success' = PyTrue
          /\ ret' = [ret EXCEPT !.result = PyTrue]
          /\ Log(<<"profile.install", PyTrue>>)
          /\ pc' = "L110"
       \/ /\ profiles' = profiles
          /\ success' = PyFalse
          /\ ret' = [ret EXCEPT !.result = PyFalse]
          /\ Log(<<"profile.install", PyFalse>>)
          /\ pc' = "L110"
       \/ /\ profiles' = profiles
          /\ success' = success
          /\ ret' = ret
          /\ Log(<<"profile.install", "raise">>)
          /\ pc' = "raised"
    /\ UNCHANGED <<tempfiles, filedata, args, exists, content, valid, mcpath, f>>

\* line 111
InstalledSuccessComment ==
    Format(<<"Profile \"">>, <<name>>, <<"\", installed successfully.">>)

\* mutant of lines 112-113: old and new exchanged
InstalledChangesSwapped ==
    name :> ("Old Profile" :> valid.new_payload @@ "New Profile" :> valid.old_payload)

\* lines 112-113
InstalledChanges ==
    name :> ("Old Profile" :> valid.old_payload @@ "New Profile" :> valid.new_payload)

\* line 115
InstalledFailureComment ==
    Format(<<"Failed to install profile with identifier: \"">>, <<name>>, <<"\"">>)

\* lines 110-118
InstalledResult ==
    /\ pc = "L110"
    /\ IF success = PyTrue
         THEN /\ ret' = [ret EXCEPT !.comment = InstalledSuccessComment,
                                    !.changes = InstalledChanges @@ ret.changes]
              /\ pc' = "returned"
         ELSE /\ ret' = [ret EXCEPT !.comment = InstalledFailureComment]
              /\ pc' = "returned"
    /\ UNCHANGED <<env, args, locals, calls, history>>

\* ---------------------------------------------------------------- absent
\* line 130: exists = __salt__['profile.exists'](name)
AbsentExists ==
    /\ pc = "L130"
    /\ exists' = Exists(name)
    /\ Log(<<"profile.exists", BoolStr(Exists(name))>>)
    /\ pc' = "L132"
    /\ UNCHANGED <<env, args, content, valid, mcpath, f, success, ret>>

\* mutant of line 132: the test inverted
AlreadyAbsentInverted == exists

\* line 132: if not exists
AlreadyAbsent == ~exists

\* line 133
AlreadyAbsentComment == <<"Profile is already absent">>

\* lines 132-134
AbsentShortCircuit ==
    /\ pc = "L132"
    /\ IF AlreadyAbsent
         THEN /\ ret' = [ret EXCEPT !.comment = AlreadyAbsentComment]
              /\ pc' = "returned"
         ELSE /\ ret' = ret
              /\ pc' = "L136"
    /\ UNCHANGED <<env, args, locals, calls, history>>

\* line 138
AbsentTestComment ==
    Format(<<"Profile with identifier: ">>, <<name>>, <<" would have been removed.">>)

\* mutant of lines 136-139: the pending removal is recorded as installed does
AbsentTestChangesPending == name :> "need to remove profile"

\* lines 136-139: the changes map is not touched
AbsentTestChanges == ret.changes

\* lines 136-139
AbsentTest ==
    /\ pc = "L136"
    /\ IF DryRun
         THEN /\ ret' = [ret EXCEPT !.result = PyNone,
                                    !.comment = AbsentTestComment,
                                    !.changes = AbsentTestChanges]
              /\ pc' = "returned"
         ELSE /\ ret' = ret
              /\ pc' = "L141"
    /\ UNCHANGED <<env, args, locals, calls, history>>

\* profile.remove(name)
Remove(n) == [profiles EXCEPT ![n] = NoPayload]

\* line 141: success = __salt__['profile.remove'](name)
AbsentRemove ==
    /\ pc = "L141"
    /\ \/ profiles' = Remove(name) /\ success' = PyTrue
       \/ profiles' = profiles /\ success' = PyFalse
    /\ Log(<<"profile.remove", success'>>)
    /\ pc' = "L143"
    /\ UNCHANGED <<tempfiles, filedata, args, exists, content, valid, mcpath, f, ret>>

\* line 144
AbsentSuccessComment ==
    Format(<<"Profile with identifier: ">>, <<name>>, <<" successfully removed">>)

\* lines 145-146
AbsentChanges == name :> ("old" :> "Installed" @@ "new" :> "Removed")

\* line 149
AbsentFailureComment ==
    Format(<<"Failed to remove profile with identifier: ">>, <<name>>, <<>>)

\* mutant of lines 143-151: line 148 missing, result stays True on failure
AbsentResultStaysTrue ==
    /\ pc = "L143"
    /\ IF success = PyTrue
         THEN ret' = [ret EXCEPT !.comment = AbsentSuccessComment,
                                 !.changes = AbsentChanges @@ ret.changes]
         ELSE ret' = [ret EXCEPT !.comment = AbsentFailureComment]
    /\ pc' = "returned"
    /\ UNCHANGED <<env, args, locals, calls, history>>

\* lines 143-151
AbsentResult ==
    /\ pc = "L143"
    /\ IF success = PyTrue
         THEN ret' = [ret EXCEPT !.comment = AbsentSuccessComment,
                                 !.changes = AbsentChanges @@ ret.changes]
         ELSE ret' = [ret EXCEPT !.result = PyFalse,
                                 !.comment = AbsentFailureComment]
    /\ pc' = "returned"
    /\ UNCHANGED <<env, args, locals, calls, history>>

\* ------------------------------------------------------------ environment
\* somebody else installs, replaces or removes a profile on the host
ExternalMutation ==
    \E id \in Ids : \E p \in Payloads(id) \cup {NoPayload} :
        /\ p # profiles[id]
        /\ profiles' = [profiles EXCEPT ![id] = p]
        /\ mutated' = TRUE
        /\ prev' = NoPrev
        /\ other' = other
        /\ UNCHANGED <<tempfiles, filedata, pc, args, locals, ret, calls>>

Next ==
    \/ CallInstalled
    \/ CallAbsent
    \/ InstalledExists
    \/ InstalledGenerate
    \/ InstalledValidate
    \/ InstalledShortCircuit
    \/ InstalledTempFile
    \/ InstalledOpen
    \/ InstalledWrite
    \/ InstalledClose
    \/ InstalledTest
    \/ InstalledInstall
    \/ InstalledResult
    \/ AbsentExists
    \/ AbsentShortCircuit
    \/ AbsentTest
    \/ AbsentRemove
    \/ AbsentResult
    \/ ExternalMutation

Spec == Init /\ [][Next]_vars

\* ------------------------------------------------------------ properties
Called(c) == \E i \in 1..Len(calls) : calls[i][1] = c

Mutations == {i \in 1..Len(calls) : calls[i][1] \in {"profile.install", "profile.remove"}}

LastCall == calls[Len(calls)]

\* a report says: nothing to do
NoOpReport(comment) ==
    /\ ret.name = name
    /\ ret.result = PyTrue
    /\ DOMAIN ret.changes = {}
    /\ ret.comment = comment

\* C1 as stated: a second call of installed with the same arguments as a first
\* call that returned, test mode off, the host untouched from outside since the
\* first began, returns success with no changes and does not call
\* profile.install.
InstalledTwiceOriginal ==
    (fn = "installed" /\ ~test /\ prev.result \in {PyTrue, PyFalse})
        => /\ ~Called("profile.install")
           /\ pc = "returned" => ret.result = PyTrue /\ DOMAIN ret.changes = {}

\* C1 amended: a second call of installed with the same arguments as a first
\* call that returned result True, test mode off, the host untouched from
\* outside since the first began, does not call profile.install, and when it
\* returns it returns success with no changes.
InstalledTwice ==
    (fn = "installed" /\ ~test /\ prev.result = PyTrue)
        => /\ ~Called("profile.install")
           /\ pc \in {"L81", "L83", "L89", "L91", "returned", "raised"}
           /\ pc = "returned" => ret.result = PyTrue /\ DOMAIN ret.changes = {}

\* the second call returns after a first call that did install the profile
InstalledTwiceWitness ==
    /\ fn = "installed" /\ ~test /\ pc = "returned"
    /\ prev.result = PyTrue /\ prev.success = PyTrue
    /\ DOMAIN ret.changes = {}

\* C2: in test mode neither profile.install nor profile.remove is called, and
\* the returned result is None whenever a change was needed (installed: not
\* (exists and valid['installed']); absent: exists), and True with no changes
\* otherwise.
ChangeNeeded == IF fn = "installed" THEN ~(exists /\ valid.installed) ELSE exists

DryRunPurity ==
    test => /\ Mutations = {}
            /\ pc = "returned" =>
                  IF ChangeNeeded
                    THEN ret.result = PyNone
                    ELSE ret.result = PyTrue /\ DOMAIN ret.changes = {}

\* a test-mode call of installed returns for a profile that exists with other content
DryRunPurityWitness ==
    /\ test /\ pc = "returned" /\ fn = "installed"
    /\ exists /\ ~valid.installed
    /\ ret.result = PyNone

\* C3: once profile.exists has answered true and profile.validate installed=true,
\* installed returns success, no changes, the comment 'already installed', with
\* no temporary file obtained, opened or written and profile.install not called,
\* in test mode and out of it.
IdempotenceShortCircuit ==
    (fn = "installed" /\ exists /\ valid.installed /\ pc # "L91")
        => /\ pc = "returned"
           /\ NoOpReport(<<"Profile identifier \"", name, "\", already installed.">>)
           /\ Names(calls) = <<"profile.exists", "profile.generate", "profile.validate">>
           /\ mcpath = 0 /\ f = "unopened" /\ filedata = NoPayload

\* the short-circuit has returned in non-test mode
IdempotenceShortCircuitWitness ==
    /\ fn = "installed" /\ exists /\ valid.installed /\ pc = "returned" /\ ~test

\* C4: when profile.install or profile.remove has returned false, the call does
\* not raise, makes no further call, and returns result False, no changes and
\* the 'Failed to install' / 'Failed to remove' comment.
FailureAbsorbed ==
    \A i \in Mutations :
        calls[i][2] = PyFalse
            => /\ i = Len(calls)
               /\ pc \in {"L110", "L143", "returned"}
               /\ pc = "returned" =>
                     /\ ret.name = name
                     /\ ret.result = PyFalse
                     /\ DOMAIN ret.changes = {}
                     /\ ret.comment =
                          IF fn = "installed"
                            THEN <<"Failed to install profile with identifier: \"", name, "\"">>
                            ELSE <<"Failed to remove profile with identifier: ", name>>

\* absent has returned after profile.remove returned false
FailureAbsorbedWitness ==
    /\ fn = "absent" /\ pc = "returned"
    /\ LastCall = <<"profile.remove", PyFalse>>
    /\ ret.result = PyFalse

\* C5: a returned report has changes together with result True only when the
\* install or remove call was made and returned true; it then has the one key
\* name, with validate's old_payload and new_payload as old and new value for
\* installed, and 'Installed' and 'Removed' for absent.
ChangeRecord ==
    (pc = "returned" /\ ret.result = PyTrue /\ DOMAIN ret.changes # {})
        => /\ Cardinality(Mutations) = 1
           /\ LastCall[2] = PyTrue
           /\ DOMAIN ret.changes = {name}
           /\ IF fn = "installed"
                THEN /\ LastCall[1] = "profile.install"
                     /\ DOMAIN ret.changes[name] = {"Old Profile", "New Profile"}
                     /\ ret.changes[name]["Old Profile"] = valid.old_payload
                     /\ ret.changes[name]["New Profile"] = valid.new_payload
                     /\ valid.new_payload = content
                ELSE /\ LastCall[1] = "profile.remove"
                     /\ DOMAIN ret.changes[name] = {"old", "new"}
                     /\ ret.changes[name]["old"] = "Installed"
                     /\ ret.changes[name]["new"] = "Removed"

\* installed has replaced a profile whose content differed
ChangeRecordWitness ==
    /\ fn = "installed" /\ pc = "returned" /\ ret.result = PyTrue
    /\ DOMAIN ret.changes = {name}
    /\ valid.old_payload # NoPayload
    /\ valid.old_payload # valid.new_payload

\* C6: when profile.exists has answered false, absent returns success, no
\* changes and the comment 'already absent' without calling profile.remove, in
\* test mode and out of it; so does a call of absent that follows one for the
\* same identifier whose profile.remove returned true, the host untouched from
\* outside in between.
AbsentIdempotent ==
    /\ (fn = "absent" /\ Len(calls) > 0 /\ ~exists /\ pc # "L132")
          => /\ pc = "returned"
             /\ NoOpReport(<<"Profile is already absent">>)
             /\ Names(calls) = <<"profile.exists">>
    /\ (fn = "absent" /\ prev.success = PyTrue /\ pc \notin {"L130", "L132"})
          => /\ pc = "returned"
             /\ NoOpReport(<<"Profile is already absent">>)
             /\ Names(calls) = <<"profile.exists">>

\* the second of two calls of absent has returned, the first having removed the profile
AbsentIdempotentWitness ==
    /\ fn = "absent" /\ pc = "returned" /\ prev.success = PyTrue /\ ~exists

\* C7 as stated: whenever a call of installed that obtained a temporary file
\* ends, by a return or by an exception, the file is not left open.
TempFileReleased ==
    (fn = "installed" /\ Finished /\ mcpath # 0) => f # "open"

\* C8: installed calls profile.exists, profile.generate, profile.validate, once
\* each and in this order, before it obtains or writes the temporary file or
\* calls profile.install, and calls generate also when the profile exists; a
\* call of installed or absent makes at most one install or remove call and its
\* calls are an initial part of the one fixed sequence, so that nothing is
\* called twice or after the call that decides the report.
InstalledSequence ==
    <<"profile.exists", "profile.generate", "profile.validate", "temp.file",
      "open", "write", "close", "profile.install">>

AbsentSequence == <<"profile.exists", "profile.remove">>

IsPrefix(s, t) == Len(s) <= Len(t) /\ \A i \in 1..Len(s) : s[i] = t[i]

CallOrder ==
    /\ fn = "installed" =>
          /\ IsPrefix(Names(calls), InstalledSequence)
          /\ (pc = "returned" \/ Len(calls) > 3) =>
                /\ Len(calls) >= 3
                /\ calls[2] = <<"profile.generate", name, kwargs>>
          /\ pc \notin {"L81", "L83"} => Called("profile.generate")
          /\ pc = "returned" => Len(calls) \in {3, 7, 8}
    /\ fn = "absent" =>
          /\ IsPrefix(Names(calls), AbsentSequence)
          /\ pc = "returned" => Len(calls) >= 1
    /\ Cardinality(Mutations) <= 1

\* installed has gone all the way to profile.install for a profile that existed
CallOrderWitness ==
    /\ fn = "installed" /\ pc = "returned" /\ exists
    /\ Names(calls) = InstalledSequence

DryRunChanges ==
    (test /\ pc = "returned" /\ ChangeNeeded)
        => /\ ret.result = PyNone
           /\ ret.name = name
           /\ IF fn = "installed"
                THEN /\ DOMAIN ret.changes = {name}
                     /\ ret.changes[name] = "need to make profile"
                     /\ ret.comment =
                          <<"New profile would have been generated, property list follows: ">>
                             \o Tail(calls[2])
                ELSE /\ DOMAIN ret.changes = {}
                     /\ ret.comment =
                          <<"Profile with identifier: ", name, " would have been removed.">>

\* absent has returned in test mode for a profile that exists
DryRunChangesWitness ==
    /\ test /\ pc = "returned" /\ fn = "absent" /\ exists
    /\ ret.result = PyNone
====
